---------------------------- MODULE Spec2Model ----------------------------
(***************************************************************************)
(* Model of the QJSX module resolution (src/qjsx-module-resolution.h) and  *)
(* of the loader hook qjsx_loader (src/qjsx.c), non-_WIN32 build.          *)
(*                                                                         *)
(* A C string is a sequence of one-character strings.  The filesystem is a *)
(* function from the paths that exist to what stat() and access() report   *)
(* for them.  One call of qjsx_loader is a run of the stage actions below. *)
(***************************************************************************)
EXTENDS Naturals, Sequences, FiniteSets

VARIABLES
    env,              \* value of QJSXPATH: NULL when unset, else a string
    fs,               \* filesystem: existing path -> [mode, r_ok]
    oom,              \* allocation sites at which js_malloc/js_strdup fail
    specifier,        \* the string the engine passed to qjsx_loader
    name,             \* contents of the caller's buffer `name`
    pc,               \* position inside qjsx_loader
    translated_name,  \* qjsx.c:54
    module_name,      \* qjsx.c:55
    path,             \* qjsx.c:71
    resolved_path,    \* qjsx.c:91
    probes,           \* file_exists() calls so far: <<[stage, dir, arg]>>
    stages,           \* stages of the adapter that have run, in order
    loads,            \* js_module_loader calls so far: <<[arg, src]>>
    mod,              \* what js_module_loader returned ("none" before)
    ret,              \* what qjsx_loader returned ("none" before)
    mem,              \* js_malloc/js_strdup, reads and js_free so far, in order
    blk               \* the allocation each pointer variable points into

vars == <<env, fs, oom, specifier, name, pc, translated_name, module_name,
          path, resolved_path, probes, stages, loads, mod, ret, mem, blk>>

-----------------------------------------------------------------------------
(* Bounds of the model *)

MaxNameLen == 2      \* longest specifier given to qjsx_loader
MaxFiles == 2        \* most entries of the filesystem
MaxTransLen == 4     \* longest specifier given to the normalizer alone
MaxOom == 1          \* most allocation sites that fail during one call
MaxEnvLen == 4       \* longest value of QJSXPATH drawn character by character

(* Program constants *)

BufSlack == 20       \* "+ 20" of both buflen computations

NULL == <<"NULL">>   \* the null pointer; no string has a 4-character element

PATH_SEP == ":"
DIR_SEP == "/"

IndexJs == <<"i", "n", "d", "e", "x", ".", "j", "s">>
DotJs == <<".", "j", "s">>

Min(a, b) == IF a < b THEN a ELSE b

-----------------------------------------------------------------------------
(* libc *)

\* strchr(s, c) != NULL
strchr(s, c) == \E i \in 1..Len(s) : s[i] = c

\* what snprintf(buf, buflen, ...) leaves in buf when the formatted text is s
snprintf(buflen, s) == SubSeq(s, 1, Min(Len(s), buflen - 1))

\* length of the leading run of s free of PATH_SEP
RECURSIVE TokLen(_)
TokLen(s) ==
    IF s = <<>> \/ Head(s) = PATH_SEP THEN 0 ELSE 1 + TokLen(Tail(s))

\* a tokenizer in the manner of strsep: every separator ends a token, so
\* leading, trailing and doubled separators yield empty tokens
RECURSIVE strtok_KeepsEmpty(_)
strtok_KeepsEmpty(s) ==
    LET n == TokLen(s)
    IN  IF n = Len(s) THEN <<s>>
        ELSE <<SubSeq(s, 1, n)>> \o strtok_KeepsEmpty(SubSeq(s, n + 2, Len(s)))

\* the tokens the successive strtok(.., PATH_SEP) calls return for s
RECURSIVE strtok(_)
strtok(s) ==
    IF s = <<>> THEN <<>>
    ELSE IF Head(s) = PATH_SEP THEN strtok(Tail(s))
    ELSE LET n == TokLen(s)
         IN  <<SubSeq(s, 1, n)>> \o strtok(SubSeq(s, n + 2, Len(s)))

\* js_malloc / js_strdup at an allocation site succeed unless the site is in oom
js_alloc_ok(site) == site \notin oom

\* an allocation is named by the site that made it; NoBlock: memory that is
\* not the loader's (the caller's buffer) or no memory at all (NULL)
NoBlock == <<"none", 0>>
Alloc(b) == [op |-> "alloc", blk |-> b]
Use(b) == [op |-> "use", blk |-> b]
js_free(b) == [op |-> "free", blk |-> b]

\* the events on block b, none when the pointer is not the loader's
On(b, events) == IF b = NoBlock THEN <<>> ELSE events

\* what a resolver returns when it did nothing
Absent == [ret |-> NULL, probes |-> <<>>, mem |-> <<>>, blk |-> NoBlock]

-----------------------------------------------------------------------------
(* File system utilities *)

\* a check without S_ISREG: a readable directory passes
file_exists_NoRegCheck(p) ==
    /\ p \in DOMAIN fs
    /\ fs[p].r_ok

\* stat(path, &st) == 0 && S_ISREG(st.st_mode) && access(path, R_OK) == 0
file_exists(p) ==
    /\ p \in DOMAIN fs
    /\ fs[p].mode = "REG"
    /\ fs[p].r_ok

-----------------------------------------------------------------------------
(* resolve_qjsxpath *)

\* the token after "if (len > 0 && strchr("/\\", path[len-1])) path[len-1] = 0"
StripTrailing(tok) ==
    IF Len(tok) > 0 /\ tok[Len(tok)] \in {"/", "\\"}
    THEN SubSeq(tok, 1, Len(tok) - 1)
    ELSE tok

\* a buffer sized for the directory, the name and the terminator alone
QjsxBuflen_NoSlack(tok, nm) == Len(tok) + Len(nm) + 1

\* size of the candidate buffer of one directory: len is taken before stripping
QjsxBuflen(tok, nm) == Len(tok) + Len(nm) + BufSlack

\* a resolver that tries <dir>/<spec>.js before <dir>/<spec>/index.js
QjsxCandidates_JsFirst(tok, nm) ==
    LET dir == StripTrailing(tok)
        buflen == QjsxBuflen(tok, nm)
    IN  << snprintf(buflen, dir \o <<DIR_SEP>> \o nm \o DotJs),
           snprintf(buflen, dir \o <<DIR_SEP>> \o nm \o <<DIR_SEP>> \o IndexJs),
           snprintf(buflen, dir \o <<DIR_SEP>> \o nm) >>

\* the three strings the snprintf calls of one loop iteration write, in order
QjsxCandidates(tok, nm) ==
    LET dir == StripTrailing(tok)
        buflen == QjsxBuflen(tok, nm)
    IN  << snprintf(buflen, dir \o <<DIR_SEP>> \o nm \o <<DIR_SEP>> \o IndexJs),
           snprintf(buflen, dir \o <<DIR_SEP>> \o nm \o DotJs),
           snprintf(buflen, dir \o <<DIR_SEP>> \o nm) >>

Probe(fn, i, k, c) == [fn |-> fn, dir |-> i, strategy |-> k, arg |-> c]

\* one iteration of the for loop, for the i-th token: the path it found (or
\* NULL) and the file_exists calls it made
QjsxTryDir(tok, i, nm) ==
    LET c == QjsxCandidates(tok, nm)
        P(k) == Probe("resolve_qjsxpath", i, k, c[k])
        copy == <<"copy", 0>>
        buf == <<"buf", i>>
        Hit(k) == [ret |-> c[k],
                   probes |-> [j \in 1..k |-> P(j)],
                   mem |-> <<Use(copy), Alloc(buf)>> \o [j \in 1..k |-> Use(buf)],
                   blk |-> buf]
    IN  IF ~js_alloc_ok(buf) THEN [Absent EXCEPT !.mem = <<Use(copy)>>]
        ELSE IF file_exists(c[1]) THEN Hit(1)
        ELSE IF file_exists(c[2]) THEN Hit(2)
        ELSE IF file_exists(c[3]) THEN Hit(3)
        ELSE [ret |-> NULL,
              probes |-> <<P(1), P(2), P(3)>>,
              mem |-> <<Use(copy), Alloc(buf), Use(buf), Use(buf), Use(buf),
                        js_free(buf)>>,
              blk |-> NoBlock]

\* a loop without "&& !result" and "break": the last directory with a hit wins
RECURSIVE QjsxLoop_LastWins(_, _, _)
QjsxLoop_LastWins(toks, i, nm) ==
    IF i > Len(toks) THEN Absent
    ELSE LET r == QjsxTryDir(toks[i], i, nm)
             rest == QjsxLoop_LastWins(toks, i + 1, nm)
         IN  [ret |-> IF rest.ret # NULL THEN rest.ret ELSE r.ret,
              probes |-> r.probes \o rest.probes,
              mem |-> r.mem \o rest.mem,
              blk |-> IF rest.ret # NULL THEN rest.blk ELSE r.blk]

\* a loop with "if (!buf) break": a failed allocation ends the search
RECURSIVE QjsxLoop_AbortsOnOom(_, _, _)
QjsxLoop_AbortsOnOom(toks, i, nm) ==
    IF i > Len(toks) THEN Absent
    ELSE LET r == QjsxTryDir(toks[i], i, nm)
         IN  IF r.ret # NULL \/ ~js_alloc_ok(<<"buf", i>>) THEN r
             ELSE LET rest == QjsxLoop_AbortsOnOom(toks, i + 1, nm)
                  IN  [ret |-> rest.ret,
                       probes |-> r.probes \o rest.probes,
                       mem |-> r.mem \o rest.mem,
                       blk |-> rest.blk]

\* the for loop from the i-th token on
RECURSIVE QjsxLoop(_, _, _)
QjsxLoop(toks, i, nm) ==
    IF i > Len(toks) THEN Absent
    ELSE LET r == QjsxTryDir(toks[i], i, nm)
         IN  IF r.ret # NULL THEN r
             ELSE LET rest == QjsxLoop(toks, i + 1, nm)
                  IN  [ret |-> rest.ret,
                       probes |-> r.probes \o rest.probes,
                       mem |-> r.mem \o rest.mem,
                       blk |-> rest.blk]

\* a resolver that searches "." when QJSXPATH is unset
resolve_qjsxpath_DefaultDir(nm) ==
    IF ~js_alloc_ok(<<"copy", 0>>) THEN Absent
    ELSE LET r == QjsxLoop(strtok(IF env = NULL THEN <<".">> ELSE env), 1, nm)
         IN  [r EXCEPT !.mem = <<Alloc(<<"copy", 0>>)>> \o r.mem
                                  \o <<js_free(<<"copy", 0>>)>>]

\* h:82-156: the copy of QJSXPATH lives from js_strdup to the js_free after
\* the loop
resolve_qjsxpath(nm) ==
    IF env = NULL THEN Absent
    ELSE IF ~js_alloc_ok(<<"copy", 0>>) THEN Absent
    ELSE LET r == QjsxLoop(strtok(env), 1, nm)
         IN  [r EXCEPT !.mem = <<Alloc(<<"copy", 0>>)>> \o r.mem
                                  \o <<js_free(<<"copy", 0>>)>>]

-----------------------------------------------------------------------------
(* resolve_with_index *)

IndexBuflen(nm) == Len(nm) + BufSlack

\* a resolver that tries <spec>/index.js before <spec>.js
IndexCandidates_IndexFirst(nm) ==
    << nm,
       snprintf(IndexBuflen(nm), nm \o <<DIR_SEP>> \o IndexJs),
       snprintf(IndexBuflen(nm), nm \o DotJs) >>

\* the strings the three strategies test, in order
IndexCandidates(nm) ==
    << nm,
       snprintf(IndexBuflen(nm), nm \o DotJs),
       snprintf(IndexBuflen(nm), nm \o <<DIR_SEP>> \o IndexJs) >>

\* a resolver without strategy 1: the verbatim name is never tested
resolve_with_index_NoVerbatim(nm) ==
    LET c == IndexCandidates(nm)
        P(k) == Probe("resolve_with_index", 0, k, c[k])
        buf == <<"index_buf", 0>>
    IN  IF ~js_alloc_ok(buf) THEN Absent
        ELSE IF file_exists(c[2])
             THEN [ret |-> c[2], probes |-> <<P(2)>>,
                   mem |-> <<Alloc(buf), Use(buf)>>, blk |-> buf]
        ELSE IF file_exists(c[3])
             THEN [ret |-> c[3], probes |-> <<P(2), P(3)>>,
                   mem |-> <<Alloc(buf), Use(buf), Use(buf)>>, blk |-> buf]
        ELSE [ret |-> NULL, probes |-> <<P(2), P(3)>>,
              mem |-> <<Alloc(buf), Use(buf), Use(buf), js_free(buf)>>,
              blk |-> NoBlock]

\* h:170-197
resolve_with_index(nm) ==
    LET c == IndexCandidates(nm)
        P(k) == Probe("resolve_with_index", 0, k, c[k])
        dup == <<"strdup", 0>>
        buf == <<"index_buf", 0>>
    IN  IF file_exists(c[1])
        THEN IF js_alloc_ok(dup)
             THEN [ret |-> c[1], probes |-> <<P(1)>>,
                   mem |-> <<Alloc(dup)>>, blk |-> dup]
             ELSE [Absent EXCEPT !.probes = <<P(1)>>]
        ELSE IF ~js_alloc_ok(buf) THEN [Absent EXCEPT !.probes = <<P(1)>>]
        ELSE IF file_exists(c[2])
             THEN [ret |-> c[2], probes |-> <<P(1), P(2)>>,
                   mem |-> <<Alloc(buf), Use(buf)>>, blk |-> buf]
        ELSE IF file_exists(c[3])
             THEN [ret |-> c[3], probes |-> <<P(1), P(2), P(3)>>,
                   mem |-> <<Alloc(buf), Use(buf), Use(buf)>>, blk |-> buf]
        ELSE [ret |-> NULL, probes |-> <<P(1), P(2), P(3)>>,
              mem |-> <<Alloc(buf), Use(buf), Use(buf), js_free(buf)>>,
              blk |-> NoBlock]

-----------------------------------------------------------------------------
(* translate_colons_to_slashes *)

\* a loop that stops after the first ':'
ReplaceColons_FirstOnly(s) ==
    [i \in 1..Len(s) |->
        IF s[i] = ":" /\ (\A j \in 1..(i - 1) : s[j] # ":") THEN "/" ELSE s[i]]

\* the loop "for (p = translated; *p; p++) if (*p == ':') *p = '/'"
ReplaceColons(s) == [i \in 1..Len(s) |-> IF s[i] = ":" THEN "/" ELSE s[i]]

\* ret: the returned pointer's string (or NULL); arg: the argument's buffer
\* after the call
translate_colons_to_slashes(nm) ==
    LET translated == <<"translated", 0>>
        Same == [ret |-> NULL, arg |-> nm, mem |-> <<>>, blk |-> NoBlock]
    IN  IF ~strchr(nm, ":") THEN Same
        ELSE IF ~js_alloc_ok(translated) THEN Same
        ELSE [ret |-> ReplaceColons(nm), arg |-> nm,
              mem |-> <<Alloc(translated), Use(translated)>>,
              blk |-> translated]

-----------------------------------------------------------------------------
(* js_module_loader: the engine's own loader, outside this repository.  It *)
(* returns a module or NULL; which one is not decided here.                *)

NoModule == "NULL"
ModuleDefs == {"JSModuleDef"}
js_module_loader == ModuleDefs \cup {NoModule}

-----------------------------------------------------------------------------
(* qjsx_loader, one action per stage *)

\* name[0]; the terminating NUL for the empty string
FirstChar(s) == IF s = <<>> THEN "NUL" ELSE s[1]

\* a test that forgets absolute specifiers
IsBare_DotOnly(s) == FirstChar(s) # "."

\* the condition of "if (module_name[0] != '.' && module_name[0] != '/')"
IsBare(s) == FirstChar(s) # "." /\ FirstChar(s) # "/"

\* an adapter that goes on with the raw name: "module_name = name"
Normalize_KeepsRaw ==
    /\ pc = "entry"
    /\ LET t == translate_colons_to_slashes(name)
       IN  /\ translated_name' = t.ret
           /\ name' = t.arg
           /\ module_name' = t.arg
           /\ mem' = mem \o t.mem
           /\ blk' = [blk EXCEPT !.translated_name = t.blk]
    /\ stages' = Append(stages, "normalize")
    /\ pc' = "classify"
    /\ UNCHANGED <<env, fs, oom, specifier, path, resolved_path, probes,
                   loads, mod, ret>>

\* qjsx.c:54-55
Normalize ==
    /\ pc = "entry"
    /\ LET t == translate_colons_to_slashes(name)
       IN  /\ translated_name' = t.ret
           /\ name' = t.arg
           /\ module_name' = IF t.ret # NULL THEN t.ret ELSE t.arg
           /\ mem' = mem \o t.mem
           /\ blk' = [blk EXCEPT !.translated_name = t.blk]
    /\ stages' = Append(stages, "normalize")
    /\ pc' = "classify"
    /\ UNCHANGED <<env, fs, oom, specifier, path, resolved_path, probes,
                   loads, mod, ret>>

\* a search-path stage without "return mod": a hit falls through to the
\* local stage
SearchPath_FallsThrough ==
    /\ pc = "classify"
    /\ IsBare(module_name)
    /\ LET r == resolve_qjsxpath(module_name)
       IN  /\ path' = r.ret
           /\ probes' = probes \o r.probes
           /\ mem' = mem \o On(blk.translated_name, <<Use(blk.translated_name)>>)
                         \o r.mem
           /\ blk' = [blk EXCEPT !.path = r.blk]
    /\ pc' = "local"
    /\ stages' = Append(stages, "search")
    /\ UNCHANGED <<env, fs, oom, specifier, name, translated_name, module_name,
                   resolved_path, loads, mod, ret>>

\* a search-path stage that runs strtok on the string getenv returned
\* instead of on a copy: strtok ends the first token with a NUL, so the value
\* of QJSXPATH is cut there
SearchPath_TokenizesEnv ==
    /\ pc = "classify"
    /\ IsBare(module_name)
    /\ LET r == resolve_qjsxpath(module_name)
       IN  /\ path' = r.ret
           /\ probes' = probes \o r.probes
           /\ mem' = mem \o On(blk.translated_name, <<Use(blk.translated_name)>>)
                         \o r.mem
           /\ blk' = [blk EXCEPT !.path = r.blk]
           /\ pc' = IF r.ret # NULL THEN "load_path" ELSE "local"
    /\ env' = IF env = NULL \/ strtok(env) = <<>> THEN env
              ELSE LET lead == CHOOSE k \in 0..Len(env) :
                                   /\ \A j \in 1..k : env[j] = PATH_SEP
                                   /\ env[k + 1] # PATH_SEP
                   IN  SubSeq(env, 1, lead + Len(strtok(env)[1]))
    /\ stages' = Append(stages, "search")
    /\ UNCHANGED <<fs, oom, specifier, name, translated_name, module_name,
                   resolved_path, loads, mod, ret>>

\* qjsx.c:69-72, bare specifier: the call of resolve_qjsxpath
SearchPath ==
    /\ pc = "classify"
    /\ IsBare(module_name)
    /\ LET r == resolve_qjsxpath(module_name)
       IN  /\ path' = r.ret
           /\ probes' = probes \o r.probes
           /\ mem' = mem \o On(blk.translated_name, <<Use(blk.translated_name)>>)
                         \o r.mem
           /\ blk' = [blk EXCEPT !.path = r.blk]
           /\ pc' = IF r.ret # NULL THEN "load_path" ELSE "local"
    /\ stages' = Append(stages, "search")
    /\ UNCHANGED <<env, fs, oom, specifier, name, translated_name, module_name,
                   resolved_path, loads, mod, ret>>

\* qjsx.c:69, specifier starting with '.' or '/': the if body is skipped
SkipSearchPath ==
    /\ pc = "classify"
    /\ ~IsBare(module_name)
    /\ pc' = "local"
    /\ UNCHANGED <<env, fs, oom, specifier, name, translated_name, module_name,
                   path, resolved_path, probes, stages, loads, mod, ret, mem,
                   blk>>

\* the allocation behind the string in variable src; module_name is
\* translated_name when that is set, else the caller's buffer
Pointee(src) == IF src = "module_name" THEN blk.translated_name ELSE blk[src]

\* what an exit does to the heap: js_module_loader reads the string in src,
\* then js_free(src) unless src is module_name, then
\* "if (translated_name) js_free(ctx, translated_name)"
Release(src) ==
    On(Pointee(src), <<Use(Pointee(src))>>)
    \o (IF src = "module_name" THEN <<>> ELSE On(blk[src], <<js_free(blk[src])>>))
    \o On(blk.translated_name, <<js_free(blk.translated_name)>>)

\* an adapter that reports failure whatever js_module_loader returned
LoadAndReturn_DropsResult(arg, src) ==
    /\ \E m \in ModuleDefs \cup {NoModule} : mod' = m
    /\ ret' = NoModule
    /\ loads' = Append(loads, [arg |-> arg, src |-> src])
    /\ mem' = mem \o Release(src)
    /\ stages' = Append(stages, "native")
    /\ pc' = "done"
    /\ UNCHANGED <<env, fs, oom, specifier, name, translated_name, module_name,
                   path, resolved_path, probes, blk>>

\* an adapter whose exits forget "if (translated_name) js_free(...)"
LoadAndReturn_LeaksTranslation(arg, src) ==
    /\ \E m \in js_module_loader :
          /\ mod' = m
          /\ ret' = m
    /\ loads' = Append(loads, [arg |-> arg, src |-> src])
    /\ mem' = mem \o On(Pointee(src), <<Use(Pointee(src))>>)
                  \o (IF src = "module_name" THEN <<>>
                      ELSE On(blk[src], <<js_free(blk[src])>>))
    /\ stages' = Append(stages, "native")
    /\ pc' = "done"
    /\ UNCHANGED <<env, fs, oom, specifier, name, translated_name, module_name,
                   path, resolved_path, probes, blk>>

\* the call js_module_loader(ctx, arg, ...) followed by "return mod"; src is
\* the variable whose string is passed
LoadAndReturn(arg, src) ==
    /\ \E m \in js_module_loader :
          /\ mod' = m
          /\ ret' = m
    /\ loads' = Append(loads, [arg |-> arg, src |-> src])
    /\ mem' = mem \o Release(src)
    /\ stages' = Append(stages, "native")
    /\ pc' = "done"
    /\ UNCHANGED <<env, fs, oom, specifier, name, translated_name, module_name,
                   path, resolved_path, probes, blk>>

\* qjsx.c:72-78
LoadPath ==
    /\ pc = "load_path"
    /\ LoadAndReturn(path, "path")

\* qjsx.c:91-92: the call of resolve_with_index
Local ==
    /\ pc = "local"
    /\ LET r == resolve_with_index(module_name)
       IN  /\ resolved_path' = r.ret
           /\ probes' = probes \o r.probes
           /\ mem' = mem \o On(blk.translated_name, <<Use(blk.translated_name)>>)
                         \o r.mem
           /\ blk' = [blk EXCEPT !.resolved_path = r.blk]
           /\ pc' = IF r.ret # NULL THEN "load_resolved" ELSE "fallback"
    /\ stages' = Append(stages, "local")
    /\ UNCHANGED <<env, fs, oom, specifier, name, translated_name, module_name,
                   path, loads, mod, ret>>

\* qjsx.c:92-98
LoadResolved ==
    /\ pc = "load_resolved"
    /\ LoadAndReturn(resolved_path, "resolved_path")

\* qjsx.c:103-105
Fallback ==
    /\ pc = "fallback"
    /\ LoadAndReturn(module_name, "module_name")

-----------------------------------------------------------------------------
(* Inputs *)

NameChars == {"u", ".", "/", ":"}

\* all strings over the characters A of length at most n
StringsUpTo(A, n) == UNION {[1..k -> A] : k \in 0..n}

\* the specifiers an import statement may hold
Specifiers == StringsUpTo(NameChars, MaxNameLen)

\* values of QJSXPATH: unset, empty, one directory (bare, with a trailing
\* slash, with a trailing backslash, the root), two directories, empty segments
PathLists ==
    { NULL,
      <<>>,
      <<"a">>,
      <<"a", "/">>,
      <<"a", "\\">>,
      <<"/">>,
      <<"a", ":", "b">>,
      <<"b", "/", ":", "a">>,
      <<":", "a", ":", ":", "b", ":">> }

\* what stat() and access() may report for an existing path
Kinds == { [mode |-> "REG", r_ok |-> TRUE],
           [mode |-> "REG", r_ok |-> FALSE],
           [mode |-> "DIR", r_ok |-> TRUE] }

Range(f) == {f[i] : i \in DOMAIN f}

\* every string a call of qjsx_loader(n) may hand to file_exists under QJSXPATH e
ProbedPaths(e, n) ==
    LET t == translate_colons_to_slashes(n)
        m == IF t.ret # NULL THEN t.ret ELSE n
        toks == IF e = NULL \/ ~IsBare(m) THEN <<>> ELSE strtok(e)
    IN  Range(IndexCandidates(m))
        \cup UNION { Range(QjsxCandidates(toks[i], m)) : i \in DOMAIN toks }

\* q names a directory on the way to p
IsAncestor(q, p) ==
    /\ Len(q) < Len(p)
    /\ SubSeq(p, 1, Len(q)) = q
    /\ p[Len(q) + 1] = "/" \/ (q # <<>> /\ q[Len(q)] = "/")

\* a filesystem the kernel can present: the empty path names nothing, a path
\* with a trailing slash names a directory, and so does every ancestor
IsFileSystem(f) ==
    \A p \in DOMAIN f :
        /\ p # <<>>
        /\ p[Len(p)] = "/" => f[p].mode = "DIR"
        /\ \A q \in DOMAIN f : IsAncestor(q, p) => f[q].mode = "DIR"

FileSystems(P) ==
    { f \in UNION { [F -> Kinds] : F \in { S \in SUBSET P : Cardinality(S) <= MaxFiles } } :
        IsFileSystem(f) }

\* the engine is about to call qjsx_loader(ctx, specifier, ...)
InitCall ==
    /\ specifier \in Specifiers
    /\ name = specifier
    /\ pc = "entry"
    /\ translated_name = NULL
    /\ module_name = NULL
    /\ path = NULL
    /\ resolved_path = NULL
    /\ probes = <<>>
    /\ stages = <<>>
    /\ loads = <<>>
    /\ mod = "none"
    /\ ret = "none"
    /\ mem = <<>>
    /\ blk = [translated_name |-> NoBlock, path |-> NoBlock,
              resolved_path |-> NoBlock]

Init ==
    /\ oom = {}
    /\ env \in PathLists
    /\ InitCall
    /\ fs \in FileSystems(ProbedPaths(env, specifier))

Next ==
    \/ Normalize
    \/ SearchPath
    \/ SkipSearchPath
    \/ LoadPath
    \/ Local
    \/ LoadResolved
    \/ Fallback

Spec == Init /\ [][Next]_vars

-----------------------------------------------------------------------------
(* One call under memory pressure: up to MaxOom allocation sites fail *)

\* the js_strdup and js_malloc calls of a call that searches two directories
OomSites ==
    { <<"translated", 0>>, <<"copy", 0>>, <<"buf", 1>>, <<"buf", 2>>,
      <<"strdup", 0>>, <<"index_buf", 0>> }

\* a bare specifier, one the normalizer rewrites, a relative one
OomSpecifiers == { <<"u">>, <<"u", ":">>, <<".", "u">> }

OomPathLists == { NULL, <<"a", ":", "b">> }

InitOom ==
    /\ oom \in {S \in SUBSET OomSites : Cardinality(S) <= MaxOom}
    /\ env \in OomPathLists
    /\ InitCall
    /\ specifier \in OomSpecifiers
    /\ fs \in FileSystems(ProbedPaths(env, specifier))

SpecOom == InitOom /\ [][Next]_vars

-----------------------------------------------------------------------------
(* The normalizer alone, on longer specifiers *)

InitTranslate ==
    /\ oom = {}
    /\ env = NULL
    /\ fs = <<>>
    /\ specifier \in StringsUpTo(NameChars, MaxTransLen)
    /\ name = specifier
    /\ pc = "entry"
    /\ translated_name = NULL
    /\ module_name = NULL
    /\ path = NULL
    /\ resolved_path = NULL
    /\ probes = <<>>
    /\ stages = <<>>
    /\ loads = <<>>
    /\ mod = "none"
    /\ ret = "none"
    /\ mem = <<>>
    /\ blk = [translated_name |-> NoBlock, path |-> NoBlock,
              resolved_path |-> NoBlock]

NextTranslate == Normalize

SpecTranslate == InitTranslate /\ [][NextTranslate]_vars

-----------------------------------------------------------------------------
(* Vocabulary of the properties, written from the specification's wording  *)

Last(q) == q[Len(q)]

\* p names an existing, readable, regular file
IsReadableFile(p) ==
    p \in DOMAIN fs /\ fs[p] = [mode |-> "REG", r_ok |-> TRUE]

\* index of the first ':' of s, Len(s) + 1 if there is none
RECURSIVE FirstColon(_)
FirstColon(s) ==
    IF s = <<>> \/ Head(s) = ":" THEN 1 ELSE 1 + FirstColon(Tail(s))

\* the segments of a path list between its ':' separators, empty ones included
RECURSIVE Segments(_)
Segments(s) ==
    LET i == FirstColon(s)
    IN  IF i > Len(s) THEN <<s>>
        ELSE <<SubSeq(s, 1, i - 1)>> \o Segments(SubSeq(s, i + 1, Len(s)))

NonEmpty(d) == d # <<>>

\* the directories QJSXPATH lists, in order
ListedDirs == IF env = NULL THEN <<>> ELSE SelectSeq(Segments(env), NonEmpty)

\* the directory an entry stands for: the entry less one trailing slash
SearchDir(d) ==
    IF d # <<>> /\ Last(d) \in {"/", "\\"} THEN SubSeq(d, 1, Len(d) - 1) ELSE d

\* <dir>/<spec>/index.js, <dir>/<spec>.js, <dir>/<spec>
DirCandidates(d, n) ==
    << SearchDir(d) \o <<"/">> \o n \o <<"/">> \o IndexJs,
       SearchDir(d) \o <<"/">> \o n \o DotJs,
       SearchDir(d) \o <<"/">> \o n >>

\* <spec>, <spec>.js, <spec>/index.js
LocalCandidates(n) == << n, n \o DotJs, n \o <<"/">> \o IndexJs >>

\* the listed directory d holds a candidate for the specifier
HasCandidate(d) ==
    \E k \in 1..3 : IsReadableFile(DirCandidates(d, module_name)[k])

\* the only (or highest-priority) existing candidate of c is the k-th
FirstExisting(c, k) ==
    IsReadableFile(c[k]) /\ \A m \in 1..(k - 1) : ~IsReadableFile(c[m])

Ran(stage) == \E j \in DOMAIN stages : stages[j] = stage

ByQjsxpath(pr) == pr.fn = "resolve_qjsxpath"
ByIndex(pr) == pr.fn = "resolve_with_index"

\* the file_exists calls of the search-path stage and of the local stage
QjsxProbes == SelectSeq(probes, ByQjsxpath)
IndexProbes == SelectSeq(probes, ByIndex)

\* those of the file_exists calls ps made for the i-th listed directory
ProbesOfDir(ps, i) ==
    LET InDir(pr) == pr.dir = i IN SelectSeq(ps, InDir)

-----------------------------------------------------------------------------
(* C1: search-path resolution is first-directory-wins: the path returned   *)
(* is a candidate of the earliest listed directory that holds an existing  *)
(* candidate, whatever later directories hold, and no file of a later      *)
(* directory is probed; with no such directory the result is absent.       *)
FirstDirectoryWins ==
    Ran("search") =>
        LET dirs == ListedDirs
            qp == QjsxProbes
            hits == {i \in DOMAIN dirs : HasCandidate(dirs[i])}
        IN  IF hits = {} THEN path = NULL
            ELSE LET first == CHOOSE i \in hits : \A j \in hits : i <= j
                 IN  /\ path \in Range(DirCandidates(dirs[first], module_name))
                     /\ \A j \in DOMAIN qp : qp[j].dir <= first
                     /\ Last(qp).arg = path

\* "./modA/util/index.js" is returned although "./modB/util.js" exists too
FirstDirectoryWins_Witness ==
    /\ pc = "load_path"
    /\ module_name = <<"u">>
    /\ Len(ListedDirs) = 2
    /\ path = DirCandidates(ListedDirs[1], module_name)[1]
    /\ IsReadableFile(DirCandidates(ListedDirs[2], module_name)[2])

(* C2: within one search directory the candidates are probed in the order  *)
(* <dir>/<spec>/index.js, <dir>/<spec>.js, <dir>/<spec>, and the first     *)
(* that exists is returned.                                                *)
SuffixPriority ==
    Ran("search") =>
        LET dirs == ListedDirs
            qp == QjsxProbes
        IN  \A i \in DOMAIN dirs :
                (\A j \in 1..(i - 1) : ~HasCandidate(dirs[j])) =>
                    LET c == DirCandidates(dirs[i], module_name)
                        ps == ProbesOfDir(qp, i)
                    IN  /\ Len(ps) \in 1..3
                        /\ \A k \in 1..Len(ps) :
                              ps[k].arg = c[k] /\ ps[k].strategy = k
                        /\ \A k \in 1..3 :
                              FirstExisting(c, k) => path = c[k] /\ Len(ps) = k
                        /\ ~HasCandidate(dirs[i]) => Len(ps) = 3

\* only <dir>/<spec>.js exists, and it is returned
SuffixPriority_Witness ==
    /\ pc = "load_path"
    /\ module_name = <<"u">>
    /\ Len(ListedDirs) = 1
    /\ LET c == DirCandidates(ListedDirs[1], module_name)
       IN  /\ path = c[2]
           /\ ~IsReadableFile(c[1])
           /\ ~IsReadableFile(c[3])

(* C3: the local resolver tries <spec>, <spec>.js, <spec>/index.js in     *)
(* this order and returns the first that exists; when none exists it       *)
(* returns NULL and the adapter hands the specifier to the native loader.  *)
LocalOrder ==
    Ran("local") =>
        LET c == LocalCandidates(module_name)
            ps == IndexProbes
        IN  /\ Len(ps) \in 1..3
            /\ \A k \in 1..Len(ps) : ps[k].arg = c[k] /\ ps[k].strategy = k
            /\ \A k \in 1..3 :
                  FirstExisting(c, k) => resolved_path = c[k] /\ Len(ps) = k
            /\ (\A k \in 1..3 : ~IsReadableFile(c[k])) =>
                  /\ resolved_path = NULL
                  /\ Len(ps) = 3
                  /\ \/ pc = "fallback"
                     \/ /\ pc = "done"
                        /\ loads = <<[arg |-> module_name, src |-> "module_name"]>>

\* "./bar.js" and "./bar/index.js" exist, "./bar" is no file: "./bar.js" wins
LocalOrder_Witness ==
    /\ pc = "load_resolved"
    /\ module_name = <<".", "u">>
    /\ LET c == LocalCandidates(module_name)
       IN  /\ resolved_path = c[2]
           /\ IsReadableFile(c[3])
           /\ ~IsReadableFile(c[1])

\* the specifier with every ':' replaced by '/'
Normalized(s) == [i \in 1..Len(s) |-> IF s[i] = ":" THEN "/" ELSE s[i]]

\* a relative or absolute specifier: it starts with '.' or '/'
StartsRelOrAbs(s) == s # <<>> /\ s[1] \in {".", "/"}

(* C4: the adapter runs normalize, search-path, local, native in this      *)
(* order; the search-path stage runs iff the normalized specifier does not *)
(* start with '.' or '/'; the local stage runs only after the search-path  *)
(* stage was skipped or returned NULL; the native loader gets the          *)
(* normalized specifier itself only after both stages returned NULL.       *)
StageOrder ==
    /\ stages \in { <<>>,
                    <<"normalize">>,
                    <<"normalize", "search">>,
                    <<"normalize", "search", "native">>,
                    <<"normalize", "search", "local">>,
                    <<"normalize", "search", "local", "native">>,
                    <<"normalize", "local">>,
                    <<"normalize", "local", "native">> }
    /\ pc # "entry" => module_name = Normalized(specifier)
    /\ pc \notin {"entry", "classify"} =>
          (Ran("search") <=> ~StartsRelOrAbs(Normalized(specifier)))
    /\ Ran("local") => (~Ran("search") \/ path = NULL)
    /\ (pc = "done" /\ path # NULL) =>
          /\ ~Ran("local")
          /\ loads = <<[arg |-> path, src |-> "path"]>>
    /\ \A j \in DOMAIN loads :
          loads[j].src = "module_name" =>
              /\ loads[j].arg = Normalized(specifier)
              /\ Ran("local")
              /\ path = NULL
              /\ resolved_path = NULL

\* a bare specifier found on the search path and also in the working
\* directory: the search-path hit is the one loaded
StageOrder_Witness ==
    /\ pc = "done"
    /\ module_name = <<"u">>
    /\ IsReadableFile(<<"u">>)
    /\ loads = <<[arg |-> path, src |-> "path"]>>
    /\ stages = <<"normalize", "search", "native">>

(* C5: a path returned by either resolver names an existing, readable,     *)
(* regular file, is one whole candidate, and is the string last probed;    *)
(* no probed path that is such a file was passed over.                     *)
ResultsAreVerifiedFiles ==
    /\ path # NULL =>
          /\ IsReadableFile(path)
          /\ LET dirs == ListedDirs
             IN  \E i \in DOMAIN dirs :
                    path \in Range(DirCandidates(dirs[i], module_name))
          /\ Last(QjsxProbes).arg = path
    /\ resolved_path # NULL =>
          /\ IsReadableFile(resolved_path)
          /\ resolved_path \in Range(LocalCandidates(module_name))
          /\ Last(IndexProbes).arg = resolved_path
    /\ \A j \in DOMAIN probes :
          IsReadableFile(probes[j].arg) => probes[j].arg \in {path, resolved_path}

\* <dir>/<spec>/index.js exists but is unreadable: it is passed over and
\* <dir>/<spec>.js is returned
ResultsAreVerifiedFiles_Witness ==
    /\ pc = "load_path"
    /\ module_name = <<"u">>
    /\ LET c == DirCandidates(ListedDirs[1], module_name)
       IN  /\ path = c[2]
           /\ c[1] \in DOMAIN fs
           /\ fs[c[1]] = [mode |-> "REG", r_ok |-> FALSE]

(* C6: the normalizer returns NULL for a specifier without ':'; otherwise  *)
(* a string of the same length with every ':' replaced by '/' and every    *)
(* other character kept; the argument is left as it was.                   *)
NormalizerContract ==
    pc # "entry" =>
        /\ name = specifier
        /\ (\A i \in DOMAIN specifier : specifier[i] # ":") =>
              translated_name = NULL
        /\ (\E i \in DOMAIN specifier : specifier[i] = ":") =>
              /\ translated_name # NULL
              /\ Len(translated_name) = Len(specifier)
              /\ \A i \in DOMAIN specifier :
                    translated_name[i] =
                        IF specifier[i] = ":" THEN "/" ELSE specifier[i]

\* translate("u:u:") = "u/u/"
NormalizerContract_Witness ==
    /\ pc = "classify"
    /\ specifier = <<"u", ":", "u", ":">>
    /\ translated_name = <<"u", "/", "u", "/">>
    /\ name = <<"u", ":", "u", ":">>

(* C7: a call of qjsx_loader calls js_module_loader exactly once, with the *)
(* search-path hit, or the local hit, or the normalized specifier, and     *)
(* returns what that call returned; nothing runs after it.                 *)
ExactlyOneOutcome ==
    /\ pc # "done" => loads = <<>> /\ mod = "none" /\ ret = "none"
    /\ Ran("native") => pc = "done"
    /\ pc = "done" =>
          /\ Len(loads) = 1
          /\ Last(stages) = "native"
          /\ Cardinality({j \in DOMAIN stages : stages[j] = "native"}) = 1
          /\ mod \in ModuleDefs \cup {NoModule}
          /\ ret = mod
          /\ LET l == loads[1]
             IN  \/ /\ l.src = "path"
                    /\ l.arg = path
                    /\ path # NULL
                    /\ resolved_path = NULL
                 \/ /\ l.src = "resolved_path"
                    /\ l.arg = resolved_path
                    /\ resolved_path # NULL
                    /\ path = NULL
                 \/ /\ l.src = "module_name"
                    /\ l.arg = module_name
                    /\ path = NULL
                    /\ resolved_path = NULL

\* a local hit was loaded and the module returned
ExactlyOneOutcome_Witness ==
    /\ pc = "done"
    /\ module_name = <<".", "u">>
    /\ ret \in ModuleDefs
    /\ loads = <<[arg |-> <<".", "u", ".", "j", "s">>, src |-> "resolved_path"]>>

(* C8, as claimed: when qjsx_loader fails for a bare specifier, the        *)
(* search-path stage and the local stage both returned NULL and the native *)
(* loader failed on the specifier.                                         *)
FailsOnlyAfterAllAbsent ==
    ( /\ pc = "done"
      /\ ret = NoModule
      /\ specifier # <<>>
      /\ ~StartsRelOrAbs(Normalized(specifier)) ) =>
        /\ path = NULL
        /\ resolved_path = NULL
        /\ stages = <<"normalize", "search", "local", "native">>
        /\ loads = <<[arg |-> Normalized(specifier), src |-> "module_name"]>>
        /\ mod = NoModule

(* C8, amended: qjsx_loader fails only when its one js_module_loader call  *)
(* failed; that call was made on a file a resolver stage found, or, after  *)
(* every resolver stage that applies returned NULL, on the normalized      *)
(* specifier.  A stage that returns NULL ends nothing: the next stage runs. *)
FailsOnlyAfterNativeFails ==
    /\ (Ran("search") /\ path = NULL) => pc = "local" \/ Ran("local")
    /\ (Ran("local") /\ resolved_path = NULL) => pc = "fallback" \/ Ran("native")
    /\ (pc = "done" /\ ret = NoModule) =>
          /\ mod = NoModule
          /\ Len(loads) = 1
          /\ loads[1].src = "module_name" =>
                /\ loads[1].arg = Normalized(specifier)
                /\ path = NULL
                /\ resolved_path = NULL
                /\ Ran("local")
                /\ ~StartsRelOrAbs(Normalized(specifier)) => Ran("search")
          /\ loads[1].src # "module_name" =>
                /\ IsReadableFile(loads[1].arg)
                /\ loads[1].arg \in {path, resolved_path}

\* a bare specifier found nowhere: both stages returned NULL and the native
\* loader failed on it
FailsOnlyAfterNativeFails_Witness ==
    /\ pc = "done"
    /\ ret = NoModule
    /\ module_name = <<"u">>
    /\ Len(ListedDirs) = 2
    /\ Len(QjsxProbes) = 6
    /\ Len(IndexProbes) = 3
    /\ loads = <<[arg |-> <<"u">>, src |-> "module_name"]>>

(* C9: with QJSXPATH unset the search-path stage returns NULL without one  *)
(* file_exists call, and the adapter goes on to the local resolver.        *)
UnsetPathIsAbsence ==
    (Ran("search") /\ env = NULL) =>
        /\ path = NULL
        /\ QjsxProbes = <<>>
        /\ pc = "local" \/ Ran("local")

\* QJSXPATH unset, bare specifier: the local resolver found "u.js"
UnsetPathIsAbsence_Witness ==
    /\ env = NULL
    /\ module_name = <<"u">>
    /\ stages = <<"normalize", "search", "local">>
    /\ resolved_path = <<"u", ".", "j", "s">>

(* C10, as claimed: a search-path entry d without a trailing separator and *)
(* the entry d followed by DIR_SEP yield the same three candidates.        *)
TrailingSeparatorIrrelevant ==
    ( /\ Ran("search")
      /\ specifier # <<>>
      /\ path = NULL
      /\ env # NULL
      /\ env # <<>>
      /\ ~strchr(env, PATH_SEP)
      /\ Last(env) # DIR_SEP ) =>
        LET withSep == strtok(env \o <<DIR_SEP>>)
        IN  /\ Len(withSep) = 1
            /\ Len(QjsxProbes) = 3
            /\ \A k \in 1..3 :
                  QjsxCandidates(withSep[1], module_name)[k] = QjsxProbes[k].arg


-----------------------------------------------------------------------------
(* C11: a specifier naming a readable regular file resolves to itself, and  *)
(* what resolve_with_index returned resolves to itself when it is resolved  *)
(* once more against the same filesystem.                                   *)
LocalIdempotent ==
    Ran("local") =>
        /\ IsReadableFile(module_name) => resolved_path = module_name
        /\ resolved_path # NULL =>
               resolve_with_index(resolved_path).ret = resolved_path

\* the local stage answered with a path longer than the specifier
LocalIdempotent_Witness ==
    /\ Ran("local")
    /\ module_name = <<"u">>
    /\ resolved_path # NULL
    /\ resolved_path # module_name
    /\ resolve_with_index(resolved_path).ret = resolved_path

-----------------------------------------------------------------------------
\* the heap after the events of log: the blocks allocated and not yet freed,
\* and whether every event met its block in the state it needs (an alloc a
\* block that is not live, a read or a free a block that is live)
RECURSIVE HeapAfter(_)
HeapAfter(log) ==
    IF log = <<>> THEN [live |-> {}, sound |-> TRUE]
    ELSE LET h == HeapAfter(SubSeq(log, 1, Len(log) - 1))
             e == log[Len(log)]
         IN  [live |-> IF e.op = "alloc" THEN h.live \cup {e.blk}
                       ELSE IF e.op = "free" THEN h.live \ {e.blk}
                       ELSE h.live,
              sound |-> /\ h.sound
                        /\ IF e.op = "alloc" THEN e.blk \notin h.live
                                             ELSE e.blk \in h.live]

\* the blocks the adapter's pointer variables hold
Held == {blk.translated_name, blk.path, blk.resolved_path} \ {NoBlock}

(* C12: every block is read and freed only while it is allocated, so none   *)
(* is freed twice or used after its free; between two stages the only live  *)
(* blocks are the ones the adapter's pointers hold (the normalized name and *)
(* the winning path); when qjsx_loader has returned no block is live.       *)
EveryAllocationFreedOnce ==
    LET h == HeapAfter(mem)
    IN  /\ h.sound
        /\ pc # "done" => h.live = Held
        /\ pc = "done" => h.live = {}

\* a call that allocated a normalized name, the copy of QJSXPATH, the buffer
\* of a directory without a hit and the buffer of the winning path, and has
\* returned
EveryAllocationFreedOnce_Witness ==
    /\ pc = "done"
    /\ translated_name # NULL
    /\ path # NULL
    /\ { <<"translated", 0>>, <<"copy", 0>>, <<"buf", 1>>, <<"buf", 2>> }
          \subseteq {mem[j].blk : j \in DOMAIN mem}

-----------------------------------------------------------------------------
(* A run of calls: between two calls of qjsx_loader the program (a module   *)
(* body, the shell) may set or unset QJSXPATH and create or remove files.   *)

SeqSpecifiers == { <<"u">>, <<".", "u">> }

SeqPathLists == { NULL, <<"a">>, <<"b", ":", "a">> }

\* the paths the calls of a run may probe
SeqPaths ==
    UNION { ProbedPaths(e, n) : e \in SeqPathLists, n \in SeqSpecifiers }

\* the engine calls qjsx_loader again: the locals of the call are fresh
Import ==
    /\ pc = "done"
    /\ \E s \in SeqSpecifiers :
          /\ specifier' = s
          /\ name' = s
    /\ pc' = "entry"
    /\ translated_name' = NULL
    /\ module_name' = NULL
    /\ path' = NULL
    /\ resolved_path' = NULL
    /\ probes' = <<>>
    /\ stages' = <<>>
    /\ loads' = <<>>
    /\ mod' = "none"
    /\ ret' = "none"
    /\ mem' = <<>>
    /\ blk' = [translated_name |-> NoBlock, path |-> NoBlock,
               resolved_path |-> NoBlock]
    /\ UNCHANGED <<env, fs, oom>>

\* setenv("QJSXPATH", v) or unsetenv("QJSXPATH") between two calls
Setenv ==
    /\ pc = "done"
    /\ \E v \in SeqPathLists \ {env} : env' = v
    /\ UNCHANGED <<fs, oom, specifier, name, pc, translated_name, module_name,
                   path, resolved_path, probes, stages, loads, mod, ret, mem,
                   blk>>

\* a file or directory appears between two calls
Create ==
    /\ pc = "done"
    /\ Cardinality(DOMAIN fs) < MaxFiles
    /\ \E p \in SeqPaths \ DOMAIN fs, k \in Kinds :
          /\ fs' = [q \in DOMAIN fs \cup {p} |-> IF q = p THEN k ELSE fs[q]]
          /\ IsFileSystem(fs')
    /\ UNCHANGED <<env, oom, specifier, name, pc, translated_name, module_name,
                   path, resolved_path, probes, stages, loads, mod, ret, mem,
                   blk>>

\* a file or directory disappears between two calls
Unlink ==
    /\ pc = "done"
    /\ \E p \in DOMAIN fs :
          /\ fs' = [q \in DOMAIN fs \ {p} |-> fs[q]]
          /\ IsFileSystem(fs')
    /\ UNCHANGED <<env, oom, specifier, name, pc, translated_name, module_name,
                   path, resolved_path, probes, stages, loads, mod, ret, mem,
                   blk>>

InitSeq ==
    /\ oom = {}
    /\ env \in SeqPathLists
    /\ InitCall
    /\ specifier \in SeqSpecifiers
    /\ fs = <<>>

NextSeq ==
    \/ Normalize
    \/ SearchPath
    \/ SkipSearchPath
    \/ LoadPath
    \/ Local
    \/ LoadResolved
    \/ Fallback
    \/ Import
    \/ Setenv
    \/ Create
    \/ Unlink

SpecSeq == InitSeq /\ [][NextSeq]_vars

\* the first readable regular file of the sequence c, its last entry if none
RECURSIVE FirstReadable(_)
FirstReadable(c) ==
    IF Len(c) = 1 \/ IsReadableFile(Head(c)) THEN Head(c)
    ELSE FirstReadable(Tail(c))

\* the candidates of all listed directories, in search order
RECURSIVE AllDirCandidates(_, _)
AllDirCandidates(dirs, n) ==
    IF dirs = <<>> THEN <<>>
    ELSE DirCandidates(Head(dirs), n) \o AllDirCandidates(Tail(dirs), n)

\* what a call loads, from the specifier, QJSXPATH and the filesystem as they
\* are now: the first existing candidate, the normalized specifier if none
ResolutionNow ==
    LET n == Normalized(specifier)
    IN  FirstReadable(
            (IF StartsRelOrAbs(n) THEN <<>> ELSE AllDirCandidates(ListedDirs, n))
            \o LocalCandidates(n) \o <<n>>)

(* C13: a call of qjsx_loader leaves QJSXPATH and the filesystem as they    *)
(* are, and what it hands to the native loader is decided by the specifier, *)
(* QJSXPATH and the filesystem of that call alone, whatever earlier calls   *)
(* saw.                                                                     *)
CallSeesOnlyPresent ==
    [][ /\ pc # "done" => env' = env /\ fs' = fs
        /\ (pc # "done" /\ pc' = "done") =>
              loads' = <<[arg |-> ResolutionNow, src |-> loads'[1].src]>>
      ]_vars

\* the filesystem was empty when the run began; files were created between
\* calls, and a later call found one of them through QJSXPATH
CallSeesOnlyPresent_Witness ==
    /\ pc = "done"
    /\ specifier = <<"u">>
    /\ env = <<"b", ":", "a">>
    /\ Cardinality(DOMAIN fs) = 2
    /\ loads = <<[arg |-> <<"a", "/", "u", ".", "j", "s">>, src |-> "path"]>>
    /\ loads[1].arg = ResolutionNow

-----------------------------------------------------------------------------
\* the class of a specifier by its first character
Class(s) ==
    IF s = <<>> THEN "bare"
    ELSE IF s[1] = "." THEN "relative"
    ELSE IF s[1] = "/" THEN "absolute"
    ELSE "bare"

\* how often a stage has run
Times(stage) == Cardinality({j \in DOMAIN stages : stages[j] = stage})

(* C14, as stated: the search-path stage is attempted exactly for the       *)
(* specifiers whose raw form is bare, and the name the adapter goes on with *)
(* has the class of the raw specifier.                                      *)
ClassIsRawClass ==
    pc \notin {"entry", "classify"} =>
        /\ Ran("search") <=> Class(specifier) = "bare"
        /\ Class(module_name) = Class(specifier)

(* C14, amended: the class is decided once, from the first character of the *)
(* normalized name; it is the class of the raw specifier unless that starts *)
(* with ':', which is bare as written and absolute once normalized, so that *)
(* its search-path stage is skipped.                                        *)
ClassIsNormalizedClass ==
    pc \notin {"entry", "classify"} =>
        /\ Times("search") <= 1
        /\ Ran("search") <=> Class(module_name) = "bare"
        /\ module_name = Normalized(specifier)
        /\ IF specifier # <<>> /\ specifier[1] = ":"
           THEN Class(specifier) = "bare" /\ Class(module_name) = "absolute"
                /\ ~Ran("search")
           ELSE Class(module_name) = Class(specifier)

\* ":u" became "/u": with QJSXPATH set the adapter went to the local stage
\* without a search
ClassIsNormalizedClass_Witness ==
    /\ pc = "local"
    /\ specifier = <<":", "u">>
    /\ module_name = <<"/", "u">>
    /\ ~Ran("search")
    /\ env = <<"a">>

-----------------------------------------------------------------------------
\* the first readable regular file among the candidates c, NULL if none
FirstHit(c) ==
    IF \E k \in DOMAIN c : IsReadableFile(c[k])
    THEN c[CHOOSE k \in DOMAIN c :
               IsReadableFile(c[k]) /\ \A m \in 1..(k - 1) : ~IsReadableFile(c[m])]
    ELSE NULL

(* C15, as stated: when an allocation fails inside a resolver stage, every  *)
(* candidate whose own allocation did not fail is still tried, and one that *)
(* exists is still returned: a later directory's by resolve_qjsxpath, the   *)
(* verbatim specifier or a later strategy's by resolve_with_index.          *)
AllocationFailureIsLocal ==
    oom # {} =>
        /\ (Ran("search") /\ env # NULL /\ <<"copy", 0>> \notin oom) =>
              LET dirs == ListedDirs
                  usable == {i \in DOMAIN dirs :
                                <<"buf", i>> \notin oom /\ HasCandidate(dirs[i])}
              IN  usable # {} => path # NULL
        /\ Ran("local") =>
              (FirstHit(LocalCandidates(module_name)) # NULL
                  => resolved_path # NULL)

(* C15, amended: in resolve_qjsxpath a failed candidate buffer skips that   *)
(* one directory (no probe is made for it) and the search goes on with the  *)
(* next, while a failed copy of the path list ends the stage with NULL      *)
(* before any probe; in resolve_with_index a failed allocation ends the     *)
(* stage with NULL at once: the verbatim specifier that exists is not       *)
(* returned when its copy fails, and the .js and /index.js strategies are   *)
(* not tried when their buffer fails.  The adapter treats each NULL as      *)
(* absence and goes on, so the call still ends in one native load.          *)
AllocationFailureSkipsOrGivesUp ==
    /\ (Ran("search") /\ env # NULL) =>
          LET dirs == ListedDirs
              qp == QjsxProbes
              tried == {i \in DOMAIN dirs : <<"buf", i>> \notin oom}
              hits == {i \in tried : HasCandidate(dirs[i])}
          IN  IF <<"copy", 0>> \in oom THEN path = NULL /\ qp = <<>>
              ELSE /\ \A i \in DOMAIN dirs \ tried : ProbesOfDir(qp, i) = <<>>
                   /\ IF hits = {}
                      THEN /\ path = NULL
                           /\ \A i \in tried : Len(ProbesOfDir(qp, i)) = 3
                      ELSE LET first == CHOOSE i \in hits : \A j \in hits : i <= j
                           IN  /\ path = FirstHit(DirCandidates(dirs[first], module_name))
                               /\ \A i \in tried :
                                     i < first => Len(ProbesOfDir(qp, i)) = 3
    /\ Ran("local") =>
          LET c == LocalCandidates(module_name)
              ip == IndexProbes
          IN  IF IsReadableFile(c[1])
              THEN /\ resolved_path = IF <<"strdup", 0>> \in oom THEN NULL ELSE c[1]
                   /\ Len(ip) = 1
              ELSE IF <<"index_buf", 0>> \in oom
                   THEN resolved_path = NULL /\ Len(ip) = 1
              ELSE resolved_path = FirstHit(<<c[2], c[3]>>)
    /\ pc = "done" =>
          /\ Len(loads) = 1
          /\ (path = NULL /\ resolved_path = NULL) => loads[1].arg = module_name

\* the buffer of the first directory could not be allocated: its candidate
\* went unprobed and the second directory's was returned
AllocationFailureSkipsOrGivesUp_Witness ==
    /\ pc = "load_path"
    /\ oom = {<<"buf", 1>>}
    /\ module_name = <<"u">>
    /\ HasCandidate(ListedDirs[1])
    /\ path \in Range(DirCandidates(ListedDirs[2], module_name))

-----------------------------------------------------------------------------
(* The two resolvers on arbitrary path lists: QJSXPATH is any string over   *)
(* EnvChars, the specifier a run of "u", the files regular and readable.    *)

EnvChars == {"a", "/", ":"}

InitPath ==
    /\ oom = {}
    /\ env \in StringsUpTo(EnvChars, MaxEnvLen)
    /\ InitCall
    /\ specifier \in StringsUpTo({"u"}, MaxNameLen)
    /\ fs \in { f \in FileSystems(ProbedPaths(env, specifier)) :
                  \A p \in DOMAIN f : f[p] = [mode |-> "REG", r_ok |-> TRUE] }

NextPath ==
    \/ Normalize
    \/ SearchPath
    \/ Local

SpecPath == InitPath /\ [][NextPath]_vars

\* the path list e without its empty segments, order kept
RECURSIVE Join(_)
Join(segs) ==
    IF segs = <<>> THEN <<>>
    ELSE IF Len(segs) = 1 THEN Head(segs)
    ELSE Head(segs) \o <<":">> \o Join(Tail(segs))

Compact(e) == Join(SelectSeq(Segments(e), NonEmpty))

(* C16: empty entries of QJSXPATH (leading, trailing or doubled ':') are    *)
(* never searched: the search-path stage returns what it returns for the    *)
(* list without them, every probe is a candidate of a non-empty entry, and  *)
(* a list with no non-empty entry gives NULL without a probe, as an unset   *)
(* variable does.                                                           *)
EmptySegmentsIgnored ==
    (Ran("search") /\ env # NULL) =>
        LET dirs == ListedDirs
            qp == QjsxProbes
            r == QjsxLoop(strtok(Compact(env)), 1, module_name)
        IN  /\ path = r.ret
            /\ path = FirstHit(AllDirCandidates(dirs, module_name))
            /\ \A j \in DOMAIN qp :
                  /\ qp[j].dir \in DOMAIN dirs
                  /\ qp[j].arg \in Range(DirCandidates(dirs[qp[j].dir], module_name))
            /\ dirs = <<>> =>
                  /\ path = NULL
                  /\ qp = <<>>
                  /\ pc = "local" \/ Ran("local")

\* QJSXPATH ":a::" has a leading, a doubled and a trailing separator; the
\* file under "a" was found
EmptySegmentsIgnored_Witness ==
    /\ pc = "load_path"
    /\ env = <<":", "a", ":", ":">>
    /\ module_name = <<"u">>
    /\ path = <<"a", "/", "u", ".", "j", "s">>

(* C17: the buffer of a search directory has the entry's length before      *)
(* stripping plus the specifier's length plus 20 bytes, the buffer of the   *)
(* local strategies the specifier's length plus 20; every candidate         *)
(* written to them fits with its terminator, so each string probed is the   *)
(* whole candidate.                                                         *)
BuffersLargeEnough ==
    /\ Ran("search") =>
          LET dirs == ListedDirs
              qp == QjsxProbes
          IN  \A j \in DOMAIN qp :
                  LET d == dirs[qp[j].dir]
                      c == DirCandidates(d, module_name)[qp[j].strategy]
                  IN  /\ QjsxBuflen(d, module_name) = Len(d) + Len(module_name) + 20
                      /\ Len(c) + 1 <= QjsxBuflen(d, module_name)
                      /\ qp[j].arg = c
    /\ Ran("local") =>
          LET ip == IndexProbes
          IN  \A j \in DOMAIN ip :
                  LET c == LocalCandidates(module_name)[ip[j].strategy]
                  IN  /\ IndexBuflen(module_name) = Len(module_name) + 20
                      /\ ip[j].strategy > 1 => Len(c) + 1 <= IndexBuflen(module_name)
                      /\ ip[j].arg = c

\* all six candidates of the longest specifier were written and probed, the
\* directory entry ending in a slash
BuffersLargeEnough_Witness ==
    /\ pc = "fallback"
    /\ Len(module_name) = MaxNameLen
    /\ env = <<"a", "/">>
    /\ Len(QjsxProbes) = 3
    /\ Len(IndexProbes) = 3

=============================================================================
